---- MODULE Spec2Model ----
(***************************************************************************)
(* Model of the Kanizsa user management service (src/user_api.py):         *)
(* the in-memory user store USERS_DB, the JWT helpers generate_token and   *)
(* verify_token, and the four handlers register, login, get_profile and    *)
(* update_profile.                                                         *)
(*                                                                         *)
(* Spec          runs the four handlers one at a time, each in one step.   *)
(* SpecRegister  runs register alone, one request at a time, with more     *)
(*               emails.                                                   *)
(* SpecConc      runs register requests in parallel threads, one step per  *)
(*               access to the shared store (Flask serves threaded).       *)
(*                                                                         *)
(* Time is counted in whole seconds, the resolution of the JWT exp and iat *)
(* claims.  Python strings are modelled as TLA+ strings, except user ids,  *)
(* which are the pair <<"user", n>> for the text f'user{n}'.  Every token  *)
(* of the model carries an exp claim.                                      *)
(***************************************************************************)
EXTENDS Integers, Sequences, FiniteSets, TLC

(* ------------------------------ bounds -------------------------------- *)
MaxTicks == 1
\* how many times the clock advances
NumThreads == 2
\* parallel register requests of SpecConc

(* ------------------------- program constants -------------------------- *)
TokenTTL == 86400
\* timedelta(hours=24), in seconds
DefaultKey == "your-secret-key"
JWT_ALGORITHM == "HS256"

(* ------------------------------ values -------------------------------- *)
None == "None"
\* Python's None, for an absent JSON field or header
NoneId == <<"None">>
\* None where a user id is expected
EmptyStr == <<>>
\* the empty text where a user id is expected

UserId(n) == <<"user", n>>
\* f'user{n}'

SeedEmail == "user1@example.com"
Emails == {SeedEmail, "a@x.com", "b@x.com"}
Passwords == {"password123", "hunter2"}
Names == {"Ann", "Bob"}
Salts == {"salt1"}
\* bcrypt.gensalt(); the seeded record was hashed with "salt0"
EnvKeys == {DefaultKey, "configured-key"}
\* the value of JWT_SECRET_KEY: the default when the variable is unset
AttackerKeys == {DefaultKey, "attacker-key"}
\* keys a caller outside the service can sign with

EmailInputs == Emails \cup {None}
PasswordInputs == Passwords \cup {None}

(* ------------------------------ bcrypt -------------------------------- *)
hashpw(password, salt) == [salt |-> salt, digest |-> <<salt, password>>]

checkpw(password, hashed) == hashpw(password, hashed.salt) = hashed

(* ------------------------------- store -------------------------------- *)
\* USERS_DB is a dict: a sequence of records in insertion order, one per key.
SeedUser ==
    [id |-> UserId(1), email |-> SeedEmail,
     password_hash |-> hashpw("password123", "salt0"),
     name |-> "John Doe", role |-> "user", created_at |-> 0, is_active |-> TRUE]

Keys(db) == {db[i].email : i \in 1..Len(db)}

Contains(db, email) == email \in Keys(db)

KeyIndex(db, email) == CHOOSE i \in 1..Len(db) : db[i].email = email

DictGet(db, email) == db[KeyIndex(db, email)]

\* USERS_DB[email] = rec: a new key is appended, an existing key keeps its place
DictSet(db, email, rec) ==
    IF Contains(db, email)
    THEN [db EXCEPT ![KeyIndex(db, email)] = rec]
    ELSE Append(db, rec)

\* the loop "for email, user_data in USERS_DB.items(): if user_data['id'] == user_id"
\* index of the first record with that id, 0 when there is none
FindById(db, user_id) ==
    IF \E i \in 1..Len(db) : db[i].id = user_id
    THEN CHOOSE i \in 1..Len(db) :
            /\ db[i].id = user_id
            /\ \A j \in 1..(i - 1) : db[j].id # user_id
    ELSE 0

\* number of records the loop examines
Scanned(db, user_id) ==
    IF FindById(db, user_id) = 0 THEN Len(db) ELSE FindById(db, user_id)

(* -------------------------------- JWT --------------------------------- *)
Sign(key, payload) == [key |-> key, alg |-> JWT_ALGORITHM, over |-> payload]

jwt_encode(payload, key) ==
    [wellformed |-> TRUE, payload |-> payload, sig |-> Sign(key, payload)]

NoPayload == [user_id |-> NoneId, has_user_id |-> FALSE, exp |-> 0, iat |-> 0]

Garbage == [wellformed |-> FALSE, payload |-> NoPayload, sig |-> Sign("", NoPayload)]
\* a text that is not a JWT, the empty text of 'Bearer ' included

\* mutant: a token is still accepted at its expiry instant
jwt_decode_Late(token, key, t) ==
    IF ~token.wellformed THEN "DecodeError"
    ELSE IF token.sig # Sign(key, token.payload) THEN "InvalidSignatureError"
    ELSE IF token.payload.exp < t THEN "ExpiredSignatureError"
    ELSE "ok"

\* mutant: a token is turned down at its expiry instant only
jwt_decode_Instant(token, key, t) ==
    IF ~token.wellformed THEN "DecodeError"
    ELSE IF token.sig # Sign(key, token.payload) THEN "InvalidSignatureError"
    ELSE IF token.payload.exp = t THEN "ExpiredSignatureError"
    ELSE "ok"

\* jwt.decode(token, key, algorithms=[JWT_ALGORITHM]) at time t
jwt_decode(token, key, t) ==
    IF ~token.wellformed THEN "DecodeError"
    ELSE IF token.sig # Sign(key, token.payload) THEN "InvalidSignatureError"
    ELSE IF token.payload.exp <= t THEN "ExpiredSignatureError"
    ELSE "ok"

\* mutant: the validity window is not added to exp
generate_token_NoWindow(user_id, key, t1, t2) ==
    jwt_encode([user_id |-> user_id, has_user_id |-> TRUE,
                exp |-> t1, iat |-> t2], key)

generate_token(user_id, key, t1, t2) ==
    jwt_encode([user_id |-> user_id, has_user_id |-> TRUE,
                exp |-> t1 + TokenTTL, iat |-> t2], key)

\* mutant: an expired token is reported with a text of its own
verify_token_ExpiredLeak(token, key, t) ==
    LET d == jwt_decode(token, key, t) IN
    IF d = "ExpiredSignatureError" THEN [raised |-> FALSE, value |-> <<"expired">>]
    ELSE IF d # "ok" THEN [raised |-> FALSE, value |-> NoneId]
    ELSE IF ~token.payload.has_user_id THEN [raised |-> TRUE, value |-> NoneId]
    ELSE [raised |-> FALSE, value |-> token.payload.user_id]

\* raised: payload['user_id'] raised KeyError; value: the result, NoneId for None
verify_token(token, key, t) ==
    LET d == jwt_decode(token, key, t) IN
    IF d = "ExpiredSignatureError" THEN [raised |-> FALSE, value |-> NoneId]
    ELSE IF d # "ok" THEN [raised |-> FALSE, value |-> NoneId]
    ELSE IF ~token.payload.has_user_id THEN [raised |-> TRUE, value |-> NoneId]
    ELSE [raised |-> FALSE, value |-> token.payload.user_id]

Truthy(user_id) == user_id # NoneId /\ user_id # EmptyStr

(* ----------------------------- responses ------------------------------ *)
NoUser == <<>>
NoToken == Garbage

Response(status, state, error, message, user_id, token, user) ==
    [status |-> status, state |-> state, error |-> error, message |-> message,
     user_id |-> user_id, token |-> token, user |-> user]

ErrorOnly(status, error) == Response(status, "", error, "", NoneId, NoToken, NoUser)

Caught(error) == Response(400, "error", error, "", NoneId, NoToken, NoUser)
\* the "except Exception as e" branches

Unhandled == Response(500, "", "Internal Server Error", "", NoneId, NoToken, NoUser)
\* an exception that leaves the handler

NoResponse == Response(0, "", "", "", NoneId, NoToken, NoUser)

NoGet == "'NoneType' object has no attribute 'get'"
NoEncode == "'NoneType' object has no attribute 'encode'"

(* ------------------------------ requests ------------------------------ *)
\* body: whether request.get_json() gave a dict
Data(body, email, password, name) ==
    [body |-> body, email |-> email, password |-> password, name |-> name]

NoData == Data(FALSE, None, None, None)

NoHeader == [present |-> FALSE, scheme |-> "", token |-> Garbage]
BasicHeader == [present |-> TRUE, scheme |-> "Basic", token |-> Garbage]
Bearer(token) == [present |-> TRUE, scheme |-> "Bearer", token |-> token]

\* auth_header and auth_header.startswith('Bearer ')
IsBearer(header) == header.present /\ header.scheme = "Bearer"

(* ------------------------------ handlers ------------------------------ *)
\* mutant: the id is made from len(USERS_DB), without the + 1
NextUserId_Len(db) == UserId(Len(db))

\* user_id = f'user{len(USERS_DB) + 1}'
NextUserId(db) == UserId(Len(db) + 1)

NewUser(user_id, email, password_hash, name, t) ==
    [id |-> user_id, email |-> email, password_hash |-> password_hash,
     name |-> name, role |-> "user", created_at |-> t, is_active |-> TRUE]

Registered(user_id) ==
    Response(200, "success", "", "User registered successfully", user_id, NoToken, NoUser)

AlreadyExists == ErrorOnly(400, "User already exists")

\* mutant: no "if email in USERS_DB" test
register_NoCheck(db, data, salt, t) ==
    IF ~data.body THEN [db |-> db, resp |-> Caught(NoGet)]
    ELSE IF data.password = None THEN [db |-> db, resp |-> Caught(NoEncode)]
    ELSE LET user_id == NextUserId(db)
             user == NewUser(user_id, data.email, hashpw(data.password, salt),
                             data.name, t)
         IN [db |-> DictSet(db, data.email, user), resp |-> Registered(user_id)]

\* POST /auth/register, run without interruption at time t
register(db, data, salt, t) ==
    IF ~data.body THEN [db |-> db, resp |-> Caught(NoGet)]
    ELSE IF Contains(db, data.email) THEN [db |-> db, resp |-> AlreadyExists]
    ELSE IF data.password = None THEN [db |-> db, resp |-> Caught(NoEncode)]
    ELSE LET user_id == NextUserId(db)
             user == NewUser(user_id, data.email, hashpw(data.password, salt),
                             data.name, t)
         IN [db |-> DictSet(db, data.email, user), resp |-> Registered(user_id)]

InvalidCredentials == ErrorOnly(401, "Invalid credentials")

LoggedIn(token, user) ==
    Response(200, "success", "", "", NoneId, token,
             <<user.id, user.email, user.name, user.role>>)

\* POST /auth/login; generate_token reads the clock at t1 (exp) and then at t2 (iat)
login(db, data, key, t1, t2) ==
    IF ~data.body THEN Caught(NoGet)
    ELSE IF ~Contains(db, data.email) THEN InvalidCredentials
    ELSE LET user == DictGet(db, data.email) IN
         IF data.password = None THEN Caught(NoEncode)
         ELSE IF ~checkpw(data.password, user.password_hash) THEN InvalidCredentials
         ELSE LoggedIn(generate_token(user.id, key, t1, t2), user)

HeaderRequired == ErrorOnly(401, "Authorization header required")
InvalidToken == ErrorOnly(401, "Invalid token")
UserNotFound == ErrorOnly(404, "User not found")

Profile(user) ==
    Response(200, "", "", "", NoneId, NoToken,
             <<user.id, user.email, user.name, user.role, user.created_at>>)

\* mutant: the record is looked up by the token's subject before the token
\* is verified
get_profile_LookupFirst(db, header, key, t) ==
    IF ~IsBearer(header) THEN [resp |-> HeaderRequired, scanned |-> 0]
    ELSE LET subject == header.token.payload.user_id
             i == FindById(db, subject)
             v == verify_token(header.token, key, t)
         IN IF v.raised THEN [resp |-> Unhandled, scanned |-> Scanned(db, subject)]
            ELSE IF ~Truthy(v.value)
            THEN [resp |-> InvalidToken, scanned |-> Scanned(db, subject)]
            ELSE IF i = 0
            THEN [resp |-> UserNotFound, scanned |-> Scanned(db, subject)]
            ELSE [resp |-> Profile(db[i]), scanned |-> Scanned(db, subject)]

\* GET /users/profile; scanned: how many records the id loop examined
get_profile(db, header, key, t) ==
    IF ~IsBearer(header) THEN [resp |-> HeaderRequired, scanned |-> 0]
    ELSE LET v == verify_token(header.token, key, t) IN
         IF v.raised THEN [resp |-> Unhandled, scanned |-> 0]
         ELSE IF ~Truthy(v.value) THEN [resp |-> InvalidToken, scanned |-> 0]
         ELSE LET i == FindById(db, v.value) IN
              IF i = 0
              THEN [resp |-> UserNotFound, scanned |-> Scanned(db, v.value)]
              ELSE [resp |-> Profile(db[i]), scanned |-> Scanned(db, v.value)]

Updated == Response(200, "success", "", "Profile updated successfully", NoneId, NoToken, NoUser)

\* mutant: the loop renames every record
SetName_All(db, i, name) == [j \in 1..Len(db) |-> [db[j] EXCEPT !.name = name]]

\* mutant: the update gives the record another id
SetName_Rekey(db, i, name) == [db EXCEPT ![i].name = name, ![i].id = UserId(0)]

\* user_data['name'] = name
SetName(db, i, name) == [db EXCEPT ![i].name = name]

\* PUT /users/profile
update_profile(db, header, data, key, t) ==
    IF ~IsBearer(header) THEN [db |-> db, resp |-> HeaderRequired, scanned |-> 0]
    ELSE LET v == verify_token(header.token, key, t) IN
         IF v.raised THEN [db |-> db, resp |-> Unhandled, scanned |-> 0]
         ELSE IF ~Truthy(v.value) THEN [db |-> db, resp |-> InvalidToken, scanned |-> 0]
         ELSE IF ~data.body THEN [db |-> db, resp |-> Caught(NoGet), scanned |-> 0]
         ELSE LET i == FindById(db, v.value) IN
              IF i = 0
              THEN [db |-> db, resp |-> UserNotFound, scanned |-> Scanned(db, v.value)]
              ELSE [db |-> SetName(db, i, data.name), resp |-> Updated,
                    scanned |-> Scanned(db, v.value)]

(* ------------------------------- state -------------------------------- *)
VARIABLES
    USERS_DB,        \* the user store
    JWT_SECRET_KEY,  \* the signing key read at startup
    now,             \* the clock, in seconds
    ticks,           \* how often the clock has advanced
    held,            \* the token a caller kept from a login, NoToken before
    served,          \* the handler that served the last request
    resp,            \* the response to the last request
    registered,      \* the successful registrations: email, password, returned id
    pc,              \* SpecConc: where each thread is in register
    frame            \* SpecConc: each thread's request, locals and response

vars == <<USERS_DB, JWT_SECRET_KEY, now, ticks, held, served, resp, registered,
          pc, frame>>

Threads == 1..NumThreads

NoFrame ==
    [data |-> NoData, salt |-> "", password_hash |-> hashpw("", ""),
     user_id |-> NoneId, resp |-> NoResponse]

Init ==
    /\ USERS_DB = <<SeedUser>>
    /\ JWT_SECRET_KEY \in EnvKeys
    /\ now = 0
    /\ ticks = 0
    /\ held = NoToken
    /\ served = ""
    /\ resp = NoResponse
    /\ registered = {}
    /\ pc = [t \in Threads |-> "idle"]
    /\ frame = [t \in Threads |-> NoFrame]

(* ------------------------ what callers present ------------------------ *)
\* a token changed after it was issued: the signature is the original one
Altered(token) ==
    {a \in {[token EXCEPT !.payload.user_id = SeedUser.id],
            [token EXCEPT !.payload.exp = @ + TokenTTL]} :
        token.wellformed /\ a # token}

\* tokens signed outside the service
Forged ==
    {jwt_encode([user_id |-> SeedUser.id, has_user_id |-> TRUE,
                 exp |-> TokenTTL, iat |-> 0], k) : k \in AttackerKeys}
    \cup
    {jwt_encode([user_id |-> u, has_user_id |-> u # NoneId,
                 exp |-> TokenTTL, iat |-> 0], DefaultKey) :
        u \in {UserId(0), EmptyStr, NoneId}}

Presentable == {held, Garbage} \cup Altered(held) \cup Forged

Headers == {NoHeader, BasicHeader} \cup {Bearer(tok) : tok \in Presentable}

\* JSON bodies: none at all, or a dict in which a field may be absent
RegisterInputs ==
    {NoData} \cup
    {Data(TRUE, e, p, "Ann") : e \in {SeedEmail, "a@x.com"}, p \in {"hunter2", None}}

LoginInputs ==
    {NoData} \cup {Data(TRUE, e, p, None) : e \in Emails, p \in PasswordInputs}

UpdateInputs == {NoData, Data(TRUE, None, None, "Bob")}

(* ---------------------- Spec: one handler at a time ------------------- *)
RegisterWith(data, salt) ==
    LET r == register(USERS_DB, data, salt, now) IN
    /\ USERS_DB' = r.db
    /\ resp' = r.resp
    /\ served' = "register"
    /\ registered' =
          IF r.resp.status = 200
          THEN registered \cup {[email |-> data.email, password |-> data.password,
                                 user_id |-> r.resp.user_id]}
          ELSE registered
    /\ UNCHANGED <<JWT_SECRET_KEY, now, ticks, held, pc, frame>>

Register == \E data \in RegisterInputs, salt \in Salts : RegisterWith(data, salt)

\* mutant: a successful login writes into the user's record
Login_Touch ==
    \E data \in LoginInputs :
        LET r == login(USERS_DB, data, JWT_SECRET_KEY, now, now) IN
        /\ resp' = r
        /\ served' = "login"
        /\ held' \in IF r.status = 200 THEN {held, r.token} ELSE {held}
        /\ USERS_DB' = IF r.status = 200
                       THEN SetName(USERS_DB, KeyIndex(USERS_DB, data.email), "seen")
                       ELSE USERS_DB
        /\ UNCHANGED <<JWT_SECRET_KEY, now, ticks, registered, pc, frame>>

\* d: seconds that pass between the two clock reads of generate_token, which
\* only a successful login calls; the caller keeps the new token or its old one
Login ==
    \E data \in LoginInputs :
        \E d \in IF login(USERS_DB, data, JWT_SECRET_KEY, now, now).status = 200
                 THEN {0, 1} ELSE {0} :
            LET r == login(USERS_DB, data, JWT_SECRET_KEY, now, now + d) IN
            /\ ticks + d <= MaxTicks
            /\ resp' = r
            /\ served' = "login"
            /\ held' \in IF r.status = 200 THEN {held, r.token} ELSE {held}
            /\ now' = now + d
            /\ ticks' = ticks + d
            /\ UNCHANGED <<USERS_DB, JWT_SECRET_KEY, registered, pc, frame>>

GetProfile ==
    \E header \in Headers :
        /\ resp' = get_profile(USERS_DB, header, JWT_SECRET_KEY, now).resp
        /\ served' = "get_profile"
        /\ UNCHANGED <<USERS_DB, JWT_SECRET_KEY, now, ticks, held, registered, pc, frame>>

UpdateProfile ==
    \E header \in Headers, data \in UpdateInputs :
        LET r == update_profile(USERS_DB, header, data, JWT_SECRET_KEY, now) IN
        /\ USERS_DB' = r.db
        /\ resp' = r.resp
        /\ served' = "update_profile"
        /\ UNCHANGED <<JWT_SECRET_KEY, now, ticks, held, registered, pc, frame>>

\* time passes between requests
Tick ==
    \E d \in {TokenTTL - 1, TokenTTL} :
        /\ ticks < MaxTicks
        /\ now' = now + d
        /\ ticks' = ticks + 1
        /\ UNCHANGED <<USERS_DB, JWT_SECRET_KEY, held, served, resp, registered,
                       pc, frame>>

Next == Register \/ Login \/ GetProfile \/ UpdateProfile \/ Tick

Spec == Init /\ [][Next]_vars

(* ------------- SpecRegister: registrations, one at a time ------------- *)
WideRegisterInputs ==
    {NoData} \cup
    {Data(TRUE, e, p, "Ann") : e \in EmailInputs, p \in {"hunter2", None}} \cup
    {Data(TRUE, e, "hunter2", None) : e \in EmailInputs}

RegisterAny == \E data \in WideRegisterInputs, salt \in Salts : RegisterWith(data, salt)

NextRegister == RegisterAny \/ Tick

SpecRegister == Init /\ [][NextRegister]_vars

(* ---------------- SpecConc: register requests in parallel -------------- *)
\* Each thread serves one register request.  A step is one access to the
\* shared store: the membership test, the read of len(USERS_DB), the write.
ConcInputs ==
    {Data(TRUE, e, p, n) : e \in {"a@x.com", "b@x.com"}, p \in Passwords, n \in Names}

\* request.get_json() and "if email in USERS_DB"
RegBeginFrom(t, inputs) ==
    /\ pc[t] = "idle"
    /\ \E data \in inputs, salt \in Salts :
        LET exists == Contains(USERS_DB, data.email) IN
        /\ frame' = [frame EXCEPT ![t] =
                        [NoFrame EXCEPT !.data = data, !.salt = salt,
                                        !.resp = IF exists THEN AlreadyExists
                                                 ELSE NoResponse]]
        /\ pc' = [pc EXCEPT ![t] = IF exists THEN "done" ELSE "prepare"]
    /\ UNCHANGED <<USERS_DB, JWT_SECRET_KEY, now, ticks, held, served, resp,
                   registered>>

RegBegin(t) == RegBeginFrom(t, ConcInputs)

\* bcrypt.hashpw(...) and user_id = f'user{len(USERS_DB) + 1}'
RegPrepare(t) ==
    /\ pc[t] = "prepare"
    /\ IF frame[t].data.password = None
       THEN /\ frame' = [frame EXCEPT ![t].resp = Caught(NoEncode)]
            /\ pc' = [pc EXCEPT ![t] = "done"]
       ELSE /\ frame' = [frame EXCEPT ![t].password_hash =
                                        hashpw(frame[t].data.password, frame[t].salt),
                                     ![t].user_id = NextUserId(USERS_DB)]
            /\ pc' = [pc EXCEPT ![t] = "store"]
    /\ UNCHANGED <<USERS_DB, JWT_SECRET_KEY, now, ticks, held, served, resp,
                   registered>>

\* USERS_DB[email] = {...} and the success response
RegStore(t) ==
    /\ pc[t] = "store"
    /\ USERS_DB' = DictSet(USERS_DB, frame[t].data.email,
                           NewUser(frame[t].user_id, frame[t].data.email,
                                   frame[t].password_hash, frame[t].data.name, now))
    /\ frame' = [frame EXCEPT ![t].resp = Registered(frame[t].user_id)]
    /\ pc' = [pc EXCEPT ![t] = "done"]
    /\ UNCHANGED <<JWT_SECRET_KEY, now, ticks, held, served, resp, registered>>

NextConc == \E t \in Threads : RegBegin(t) \/ RegPrepare(t) \/ RegStore(t)

SpecConc == Init /\ [][NextConc]_vars

(* ------- SpecConcServe: parallel registrations, then the other handlers ------ *)
\* login, get_profile and update_profile are served, each in one step, while
\* the register threads run
ServeInputs == {Data(TRUE, e, "hunter2", "Ann") : e \in {"a@x.com", "b@x.com"}}

NextConcServe ==
    \/ \E t \in Threads : RegBeginFrom(t, ServeInputs) \/ RegPrepare(t) \/ RegStore(t)
    \/ Login
    \/ GetProfile
    \/ UpdateProfile

SpecConcServe == Init /\ [][NextConcServe]_vars

(* ------------------------------- claims -------------------------------- *)
IdNum(user_id) == user_id[2]

Ids(db) == {db[i].id : i \in 1..Len(db)}

SignedByService(token) ==
    token.wellformed /\ token.sig.key = JWT_SECRET_KEY /\ token.sig.over = token.payload

Expired(token) == SignedByService(token) /\ token.payload.exp <= now

\* the response of get_profile names the record with this id and email
Resolves(r, user_id, email) ==
    r.status = 200 /\ Len(r.user) = 5 /\ r.user[1] = user_id /\ r.user[2] = email

\* C1: whoever registered with (e, p) and was given id u can log in with
\* (e, p) in every later state, and the token of that login, presented to
\* get_profile at any time before its expiry, resolves to the record with id u
\* and email e; so does a token for u that a caller kept from an earlier login.
C1_RegisterLoginResolves ==
    \A r \in registered :
        /\ \A d \in {0, 1} :
              LET l == login(USERS_DB, Data(TRUE, r.email, r.password, None),
                             JWT_SECRET_KEY, now, now + d)
              IN /\ l.status = 200
                 /\ l.token.payload.user_id = r.user_id
                 /\ \A t \in {now + d, l.token.payload.exp - 1} :
                       Resolves(get_profile(USERS_DB, Bearer(l.token),
                                            JWT_SECRET_KEY, t).resp,
                                r.user_id, r.email)
        /\ (SignedByService(held) /\ held.payload.user_id = r.user_id
                /\ now < held.payload.exp)
              => Resolves(get_profile(USERS_DB, Bearer(held), JWT_SECRET_KEY, now).resp,
                          r.user_id, r.email)

\* C1 witness: after a registration, a login, an update of the name and the
\* passing of time, get_profile answered the token of the login with the
\* record of the user who registered
C1_Witness ==
    /\ served = "get_profile"
    /\ now > 0
    /\ \E r \in registered :
          /\ held.payload.user_id = r.user_id
          /\ Resolves(resp, r.user_id, r.email)
          /\ resp.user[3] = "Bob"

\* C2: a register request whose email is already a key of the store is
\* answered 'User already exists' and leaves the whole store as it was.
C2_DuplicateRejected ==
    \A data \in RegisterInputs, salt \in Salts :
        (data.body /\ Contains(USERS_DB, data.email))
            => register(USERS_DB, data, salt, now) =
                  [db |-> USERS_DB, resp |-> AlreadyExists]

\* C2 witness: register answered 'User already exists' when the store held
\* the seeded record and a registered one, renamed since
C2_Witness ==
    /\ served = "register"
    /\ resp = AlreadyExists
    /\ \E r \in registered : DictGet(USERS_DB, r.email).name = "Bob"

AllDone == \A t \in Threads : pc[t] = "done"

Winners == {t \in Threads : frame[t].resp.status = 200}

RecordsOf(db, email) == {i \in 1..Len(db) : db[i].email = email}

\* C3: when all threads register the same unregistered email, exactly one
\* gets success, the others get 'User already exists', and the one record for
\* the email holds the winner's password and name.
C3_OneWinner ==
    (AllDone /\ \A s, t \in Threads : frame[s].data.email = frame[t].data.email)
        => /\ Cardinality(Winners) = 1
           /\ \A t \in Threads \ Winners : frame[t].resp = AlreadyExists
           /\ \A t \in Winners :
                 /\ Cardinality(RecordsOf(USERS_DB, frame[t].data.email)) = 1
                 /\ LET u == DictGet(USERS_DB, frame[t].data.email) IN
                    /\ checkpw(frame[t].data.password, u.password_hash)
                    /\ u.name = frame[t].data.name

\* C4: for every submitted password value, a login that fails with an email
\* of the store gets the very response that the same login gets with an email
\* that is not in the store.
C4_LoginFailuresAlike ==
    \A p \in PasswordInputs, e1, e2 \in EmailInputs :
        LET r1 == login(USERS_DB, Data(TRUE, e1, p, None), JWT_SECRET_KEY, now, now)
            r2 == login(USERS_DB, Data(TRUE, e2, p, None), JWT_SECRET_KEY, now, now)
        IN (Contains(USERS_DB, e1) /\ ~Contains(USERS_DB, e2) /\ r1.status # 200)
              => r1 = r2

\* C5: verify_token gives a user id only for a token signed with the service's
\* key, unaltered, and strictly before its expiry; protected operations answer
\* 401 to an expired token, a token signed with another key and an altered token.
C5_TokenValidity ==
    \A token \in Presentable :
        LET v == verify_token(token, JWT_SECRET_KEY, now) IN
        /\ (~v.raised /\ v.value # NoneId)
              => (SignedByService(token) /\ now < token.payload.exp)
        /\ (Expired(token) \/ ~SignedByService(token))
              => /\ get_profile(USERS_DB, Bearer(token), JWT_SECRET_KEY, now)
                        .resp.status = 401
                 /\ \A data \in UpdateInputs :
                       update_profile(USERS_DB, Bearer(token), data, JWT_SECRET_KEY, now)
                           .resp.status = 401

\* C5 witness: update_profile answered 401 at the very instant at which the
\* token a caller holds from a login expires
C5_Witness ==
    /\ served = "update_profile"
    /\ SignedByService(held)
    /\ held.payload.exp = now
    /\ resp.status = 401
    /\ \A data \in UpdateInputs :
          update_profile(USERS_DB, Bearer(held), data, JWT_SECRET_KEY, now).resp = resp

\* C6: a successful update_profile changes the name of the record whose id is
\* the token's subject and nothing else in the store.
C6_UpdateFrame ==
    \A header \in Headers, data \in UpdateInputs :
        LET r == update_profile(USERS_DB, header, data, JWT_SECRET_KEY, now)
            i == FindById(USERS_DB, header.token.payload.user_id)
        IN r.resp.status = 200
              => /\ i # 0
                 /\ Len(r.db) = Len(USERS_DB)
                 /\ r.db[i].name = data.name
                 /\ \A j \in 1..Len(USERS_DB) :
                       /\ r.db[j].id = USERS_DB[j].id
                       /\ r.db[j].email = USERS_DB[j].email
                       /\ r.db[j].password_hash = USERS_DB[j].password_hash
                       /\ r.db[j].role = USERS_DB[j].role
                       /\ r.db[j].created_at = USERS_DB[j].created_at
                       /\ r.db[j].is_active = USERS_DB[j].is_active
                       /\ j # i => r.db[j] = USERS_DB[j]

\* C6 witness: update_profile renamed the registered user, whose token the
\* caller holds, and the seeded record kept its name
C6_Witness ==
    /\ served = "update_profile"
    /\ resp = Updated
    /\ Len(USERS_DB) = 2
    /\ USERS_DB[1].name = "John Doe"
    /\ USERS_DB[2].name = "Bob"
    /\ held.payload.user_id = USERS_DB[2].id

Rejects(header) ==
    \/ ~IsBearer(header)
    \/ LET v == verify_token(header.token, JWT_SECRET_KEY, now) IN
       ~v.raised /\ ~Truthy(v.value)

Verifies(header) ==
    /\ IsBearer(header)
    /\ LET v == verify_token(header.token, JWT_SECRET_KEY, now) IN
       ~v.raised /\ Truthy(v.value)

\* C7: a protected operation whose header is missing or not Bearer, or whose
\* token verify_token rejects, answers 401 without examining any record and
\* leaves the store alone; with a verified token whose subject matches no
\* record it is rejected and leaves the store alone.
C7_VerifyBeforeLookup ==
    \A header \in Headers :
        LET g == get_profile(USERS_DB, header, JWT_SECRET_KEY, now)
            unknown == FindById(USERS_DB, header.token.payload.user_id) = 0
        IN /\ Rejects(header) => (g.resp.status = 401 /\ g.scanned = 0)
           /\ (Verifies(header) /\ unknown) => g.resp.status = 404
           /\ \A data \in UpdateInputs :
                 LET u == update_profile(USERS_DB, header, data, JWT_SECRET_KEY, now) IN
                 /\ Rejects(header)
                       => (u.resp.status = 401 /\ u.scanned = 0 /\ u.db = USERS_DB)
                 /\ (Verifies(header) /\ unknown)
                       => (u.resp.status \in {400, 404} /\ u.db = USERS_DB)

\* C7 witness: get_profile answered 'User not found', which it does to a
\* verified token whose subject is no record's id, after the lookup
C7_Witness ==
    /\ served = "get_profile"
    /\ resp = UserNotFound
    /\ \E header \in Headers :
          /\ Verifies(header)
          /\ get_profile(USERS_DB, header, JWT_SECRET_KEY, now) =
                [resp |-> resp, scanned |-> Len(USERS_DB)]

\* C8: run one at a time, every successful register returns an id that no
\* record has and that no earlier register returned, larger than all of them,
\* and no two records ever share an id.
C8_FreshIds ==
    /\ \A i, j \in 1..Len(USERS_DB) : USERS_DB[i].id = USERS_DB[j].id => i = j
    /\ \A data \in WideRegisterInputs, salt \in Salts :
          LET r == register(USERS_DB, data, salt, now) IN
          r.resp.status = 200
              => /\ r.resp.user_id \notin Ids(USERS_DB)
                 /\ \A u \in Ids(USERS_DB) : IdNum(u) < IdNum(r.resp.user_id)
                 /\ \A e \in registered : IdNum(e.user_id) < IdNum(r.resp.user_id)
                 /\ Ids(r.db) = Ids(USERS_DB) \cup {r.resp.user_id}

\* C8 witness: three registrations succeeded after the seeded record, at
\* different times
C8_Witness ==
    /\ served = "register"
    /\ resp = Registered(UserId(4))
    /\ Cardinality(registered) = 3
    /\ Len(USERS_DB) = 4
    /\ USERS_DB[4].created_at > USERS_DB[2].created_at

\* C9: a protected operation gives one and the same response to a token that
\* is malformed or badly signed and to a well signed token that has expired.
C9_RejectionsAlike ==
    \A token \in Presentable :
        (~SignedByService(token) \/ Expired(token))
            => /\ get_profile(USERS_DB, Bearer(token), JWT_SECRET_KEY, now).resp
                     = InvalidToken
               /\ \A data \in UpdateInputs :
                     update_profile(USERS_DB, Bearer(token), data, JWT_SECRET_KEY, now)
                         .resp = InvalidToken

\* C9 witness: get_profile answered 'Invalid token' while the caller holds a
\* token of the service that has expired
C9_Witness ==
    /\ served = "get_profile"
    /\ Expired(held)
    /\ resp = InvalidToken
    /\ get_profile(USERS_DB, Bearer(held), JWT_SECRET_KEY, now).resp = resp
    /\ get_profile(USERS_DB, Bearer(Garbage), JWT_SECRET_KEY, now).resp = resp

\* C10: when the threads register pairwise different unregistered emails,
\* every request succeeds, the store gains a record per request, and the new
\* ids differ from each other and from the ids the store had.
C10_DistinctIds ==
    (AllDone /\ \A s, t \in Threads :
                    s # t => frame[s].data.email # frame[t].data.email)
        => /\ Winners = Threads
           /\ Len(USERS_DB) = 1 + NumThreads
           /\ \A s, t \in Threads : s # t => frame[s].user_id # frame[t].user_id
           /\ \A t \in Threads : frame[t].user_id # SeedUser.id
           /\ \A i, j \in 1..Len(USERS_DB) :
                 USERS_DB[i].id = USERS_DB[j].id => i = j

\* C11: no step of any handler, parallel ones included, removes a record or
\* changes a field of an existing record other than its name.
C11_RecordsImmutable ==
    [][\A i \in 1..Len(USERS_DB) :
          /\ i <= Len(USERS_DB')
          /\ USERS_DB'[i] = [USERS_DB[i] EXCEPT !.name = USERS_DB'[i].name]]_vars

\* times at and after the present one
Later == {now, now + 1, now + TokenTTL}

\* C12: the clock never goes back and the key never changes; a token of the
\* service whose expiry instant has been reached is turned down by
\* verify_token now and at every later time, and stays turned down over
\* every step that keeps it.
C12_ExpiryTerminal ==
    /\ [](\A token \in Presentable :
            Expired(token)
                => \A t \in Later :
                      verify_token(token, JWT_SECRET_KEY, t) =
                          [raised |-> FALSE, value |-> NoneId])
    /\ [][/\ now' >= now
          /\ JWT_SECRET_KEY' = JWT_SECRET_KEY
          /\ (Expired(held) /\ held' = held) => Expired(held)']_vars

\* C12 witness: a registration succeeded at a time at which the token a
\* caller holds from a login had expired
C12_Witness ==
    /\ Expired(held)
    /\ served = "register"
    /\ resp.status = 200
    /\ USERS_DB[Len(USERS_DB)].created_at >= held.payload.exp

\* C13: the token that a successful login returns has the user's id as its
\* subject and an expiry exactly 24 hours after its issued-at instant.
C13_ExactWindow ==
    (served = "login" /\ resp.status = 200)
        => /\ resp.token.payload.has_user_id
           /\ resp.token.payload.user_id = resp.user[1]
           /\ resp.token.payload.exp - resp.token.payload.iat = TokenTTL

\* C14: whatever the input, no handler lets an exception leave it, and a
\* handler that answers with an error leaves the store as it was.
C14_NoFaultEscapes ==
    /\ \A data \in RegisterInputs, salt \in Salts :
          LET r == register(USERS_DB, data, salt, now) IN
          r.resp # Unhandled /\ (r.resp.status # 200 => r.db = USERS_DB)
    /\ \A data \in LoginInputs :
          login(USERS_DB, data, JWT_SECRET_KEY, now, now) # Unhandled
    /\ \A header \in Headers :
          /\ get_profile(USERS_DB, header, JWT_SECRET_KEY, now).resp # Unhandled
          /\ \A data \in UpdateInputs :
                LET u == update_profile(USERS_DB, header, data, JWT_SECRET_KEY, now) IN
                u.resp # Unhandled /\ (u.resp.status # 200 => u.db = USERS_DB)

Missing(data) == ~data.body \/ None \in {data.email, data.password, data.name}

\* C15: a register request with a missing email, password or name is turned
\* down and leaves the store alone; no key of the store is a missing email
\* and no record made by register has a missing name.
C15_MissingFieldsRejected ==
    /\ \A data \in WideRegisterInputs, salt \in Salts :
          Missing(data)
              => LET r == register(USERS_DB, data, salt, now) IN
                 r.resp.status # 200 /\ r.db = USERS_DB
    /\ \A i \in 1..Len(USERS_DB) :
          USERS_DB[i].email # None /\ USERS_DB[i].name # None

\* C16: no token signed with the published default key is accepted, and no
\* token is issued under it.
C16_NoDefaultKey ==
    \A token \in Presentable \cup {resp.token} :
        (token.wellformed /\ token.sig.key = DefaultKey)
            => verify_token(token, JWT_SECRET_KEY, now) =
                  [raised |-> FALSE, value |-> NoneId]

\* C17: no step changes the signing key, and a step of login or get_profile,
\* whatever its outcome, leaves the store as it was.
C17_KeyAndStoreFrame ==
    [][/\ JWT_SECRET_KEY' = JWT_SECRET_KEY
       /\ served' \in {"login", "get_profile"} => USERS_DB' = USERS_DB]_vars

\* C17 witness: a login succeeded for a user whose name had been updated
C17_Witness ==
    /\ served = "login"
    /\ resp.status = 200
    /\ resp.user[3] = "Bob"
    /\ DictGet(USERS_DB, resp.user[2]).name = "Bob"

C19_OwnRecordOnly ==
    (served = "login" /\ resp.status = 200 /\ now < resp.token.payload.exp)
        => LET e == resp.user[2]
               header == Bearer(resp.token)
               g == get_profile(USERS_DB, header, JWT_SECRET_KEY, now).resp
               u == update_profile(USERS_DB, header, Data(TRUE, None, None, "Bob"),
                                   JWT_SECRET_KEY, now)
           IN /\ g.status = 200
              /\ g.user[2] = e
              /\ u.resp.status = 200
              /\ DictGet(u.db, e).name = "Bob"
              /\ \A i \in 1..Len(USERS_DB) :
                    USERS_DB[i].email # e => u.db[i] = USERS_DB[i]
====
